---------------------------- MODULE Spec2Model ----------------------------
(***************************************************************************)
(* A model of the audio pipeline of youtubesttkannada:                     *)
(*   - audiotranslate.py: transcribe_kannada_audio (whole file) and        *)
(*     transcribe_long_kannada_audio (fixed-size chunks);                  *)
(*   - ytb.py: get_available_formats and extract_audio_from_stream.        *)
(*                                                                         *)
(* Time is counted in ticks, TicksPerSecond ticks to the second, so that a *)
(* float duration such as 2.5 s is the integer 5 (at two ticks a second).  *)
(* A Python str is a sequence of one-character strings.  A Python value    *)
(* that may be None is a record: NoneVal, or Str(s).                       *)
(***************************************************************************)
EXTENDS Integers, Sequences, FiniteSets, TLC

\* ------------------------------------------------------------------ bounds

TicksPerSecond == 2
MaxDurationTicks == 10
MaxChunkSeconds == 2
MaxFormats == 3
MaxAbr == 2
MaxClockTicks == 4

\* ------------------------------------------------------------ Python values

NoneVal == [kind |-> "None"]
Pending == [kind |-> "pending"]
Str(s) == [kind |-> "str", val |-> s]
Some(x) == [kind |-> "some", val |-> x]

Min(a, b) == IF a <= b THEN a ELSE b

\* range(0, stop, step) of Python, as the sequence of its values.
RECURSIVE RangeFrom(_, _, _)
RangeFrom(start, stop, step) ==
    IF start >= stop THEN << >>
    ELSE <<start>> \o RangeFrom(start + step, stop, step)

\* int(x) of a non-negative float x given in ticks: whole seconds, truncated.
IntSeconds(ticks) == ticks \div TicksPerSecond

\* A join that forgets the delimiter: "".join(parts).
RECURSIVE JoinNoDelimiter(_)
JoinNoDelimiter(parts) ==
    IF Len(parts) = 0 THEN << >>
    ELSE parts[1] \o JoinNoDelimiter(Tail(parts))

\* " ".join(parts)
RECURSIVE JoinSpace(_)
JoinSpace(parts) ==
    IF Len(parts) = 0 THEN << >>
    ELSE IF Len(parts) = 1 THEN parts[1]
    ELSE parts[1] \o <<" ">> \o JoinSpace(Tail(parts))

\* The two sentinels of the chunked transcriber, "[unclear]" and "[error]" in
\* Kannada: bracketed words with no space in them.
UNCLEAR == <<"[", "u", "]">>
ERROR == <<"[", "e", "]">>

\* --------------------------------------------------- the recognition backend

\* What recognize_google hands back: a transcript (one word or several), or an
\* exception: the two the library documents, or any other one.
BackendTexts == {<<"a">>, <<"a", " ", "b">>}
BackendOutcomes ==
    [type : {"text"}, text : BackendTexts]
        \cup [type : {"UnknownValueError", "RequestError", "Exception"},
              text : {<< >>}]

VARIABLES
    \* transcribers (audiotranslate.py)
    tpc,             \* position in the running transcriber
    audio_duration,  \* the artifact's duration, in ticks
    chunk_duration,  \* the chunk size argument, in seconds
    is_wav,          \* whether audio_file_path ends with ".wav"
    i,               \* the loop variable of the chunk loop, in seconds
    cursor,          \* the read position of the open audio stream, in ticks
    chunk,           \* the recorded audio handed to the backend: [start, dur]
    full_text,       \* the list of chunk outputs
    result,          \* the value returned
    exc,             \* the exception being handled: [type, origin]
    calls,           \* history: the audio of each backend call, in call order
    outcomes,        \* history: what each backend call came back with
    \* acquisition (ytb.py)
    formats,         \* info['formats'] of the URL
    now,             \* the wall clock, in ticks
    epc,             \* position of each run of extract_audio_from_stream
    audio_formats,   \* each run's filtered (then sorted) candidates
    best_audio,      \* each run's chosen format
    output_path,     \* each run's outtmpl: [dir, name]
    started,         \* whether the run called ydl.download
    ret              \* each run's return value

tvars == <<tpc, audio_duration, chunk_duration, is_wav, i, cursor, chunk,
           full_text, result, exc, calls, outcomes>>
evars == <<formats, now, epc, audio_formats, best_audio, output_path,
           started, ret>>
vars == <<tvars, evars>>

Runs == {1, 2}
NoExc == [type |-> "none", origin |-> "none"]
NoChunk == [start |-> 0, dur |-> 0]

\* The transcribers at rest (a specification of the acquisition alone).
TranscriberIdle ==
    /\ tpc = "off"
    /\ audio_duration = 0
    /\ chunk_duration = 1
    /\ is_wav = TRUE
    /\ i = 0
    /\ cursor = 0
    /\ chunk = NoChunk
    /\ full_text = << >>
    /\ result = Pending
    /\ exc = NoExc
    /\ calls = << >>
    /\ outcomes = << >>

\* The acquisition at rest (a specification of a transcriber alone).
AcquirerIdle ==
    /\ formats = << >>
    /\ now = 0
    /\ epc = [p \in Runs |-> "off"]
    /\ audio_formats = [p \in Runs |-> << >>]
    /\ best_audio = [p \in Runs |-> NoneVal]
    /\ output_path = [p \in Runs |-> NoneVal]
    /\ started = [p \in Runs |-> FALSE]
    /\ ret = [p \in Runs |-> Pending]

\* ------------------------------------------ transcribe_long_kannada_audio

\* The start offsets of the chunk loop: range(0, int(audio_duration), chunk_duration).
ChunkStarts(D, C) == RangeFrom(0, IntSeconds(D), C)

\* duration=min(chunk_duration, audio_duration - i), in ticks.
ChunkDur(D, C, start) == Min(C * TicksPerSecond, D - start * TicksPerSecond)

\* An inner try whose two handlers append the same sentinel.
ChunkOutputOneSentinel(o) ==
    CASE o.type = "text" -> [append |-> TRUE, seg |-> o.text]
      [] o.type = "UnknownValueError" -> [append |-> TRUE, seg |-> UNCLEAR]
      [] o.type = "RequestError" -> [append |-> TRUE, seg |-> UNCLEAR]
      [] OTHER -> [append |-> FALSE, seg |-> << >>]

\* The inner try of the chunk loop: what a backend outcome appends to
\* full_text, or that the exception leaves the inner try.
ChunkOutput(o) ==
    CASE o.type = "text" -> [append |-> TRUE, seg |-> o.text]
      [] o.type = "UnknownValueError" -> [append |-> TRUE, seg |-> UNCLEAR]
      [] o.type = "RequestError" -> [append |-> TRUE, seg |-> ERROR]
      [] OTHER -> [append |-> FALSE, seg |-> << >>]

InitLong ==
    /\ tpc = "long_open"
    /\ audio_duration \in 1..MaxDurationTicks
    /\ chunk_duration \in 1..MaxChunkSeconds
    /\ is_wav = TRUE
    /\ i = 0
    /\ cursor = 0
    /\ chunk = NoChunk
    /\ full_text = << >>
    /\ result = Pending
    /\ exc = NoExc
    /\ calls = << >>
    /\ outcomes = << >>
    /\ AcquirerIdle

\* with sr.AudioFile(audio_file_path) as audio_file; audio_file.duration_seconds
LongOpen ==
    /\ tpc = "long_open"
    /\ \E ok \in BOOLEAN :
         IF ok
         THEN /\ tpc' = "long_loop"
              /\ i' = 0
              /\ exc' = exc
         ELSE /\ tpc' = "long_except"
              /\ exc' = [type |-> "Exception", origin |-> "artifact"]
              /\ i' = i
    /\ UNCHANGED <<audio_duration, chunk_duration, is_wav, cursor, chunk,
                   full_text, result, calls, outcomes, evars>>

\* One turn of the loop up to the backend call: seek(i), then record.
LongSeekRecord ==
    /\ tpc = "long_loop"
    /\ i < IntSeconds(audio_duration)
    /\ \E ok \in BOOLEAN :
         IF ok
         THEN /\ chunk' = [start |-> i * TicksPerSecond,
                           dur |-> ChunkDur(audio_duration, chunk_duration, i)]
              /\ cursor' = i * TicksPerSecond
                             + ChunkDur(audio_duration, chunk_duration, i)
              /\ tpc' = "long_call"
              /\ exc' = exc
         ELSE /\ tpc' = "long_except"
              /\ exc' = [type |-> "Exception", origin |-> "artifact"]
              /\ UNCHANGED <<chunk, cursor>>
    /\ UNCHANGED <<audio_duration, chunk_duration, is_wav, i, full_text,
                   result, calls, outcomes, evars>>

\* recognizer.recognize_google(chunk, ...) is entered.
LongCall ==
    /\ tpc = "long_call"
    /\ calls' = Append(calls, chunk)
    /\ tpc' = "long_wait"
    /\ UNCHANGED <<audio_duration, chunk_duration, is_wav, i, cursor, chunk,
                   full_text, result, exc, outcomes, evars>>

\* The call comes back; the inner try appends a segment or lets the
\* exception through to the outer try. The loop variable then advances.
LongBackendReturn ==
    /\ tpc = "long_wait"
    /\ \E o \in BackendOutcomes :
         /\ outcomes' = Append(outcomes, o)
         /\ IF ChunkOutput(o).append
            THEN /\ full_text' = Append(full_text, ChunkOutput(o).seg)
                 /\ i' = i + chunk_duration
                 /\ tpc' = "long_loop"
                 /\ exc' = exc
            ELSE /\ tpc' = "long_except"
                 /\ exc' = [type |-> o.type, origin |-> "backend"]
                 /\ UNCHANGED <<full_text, i>>
    /\ UNCHANGED <<audio_duration, chunk_duration, is_wav, cursor, chunk,
                   result, calls, evars>>

\* The range is exhausted: return " ".join(full_text).
LongReturn ==
    /\ tpc = "long_loop"
    /\ ~(i < IntSeconds(audio_duration))
    /\ result' = Str(JoinSpace(full_text))
    /\ tpc' = "done"
    /\ UNCHANGED <<audio_duration, chunk_duration, is_wav, i, cursor, chunk,
                   full_text, exc, calls, outcomes, evars>>

\* except Exception as e: return None
LongExcept ==
    /\ tpc = "long_except"
    /\ result' = NoneVal
    /\ tpc' = "done"
    /\ UNCHANGED <<audio_duration, chunk_duration, is_wav, i, cursor, chunk,
                   full_text, exc, calls, outcomes, evars>>

NextLong ==
    \/ LongOpen
    \/ LongSeekRecord
    \/ LongCall
    \/ LongBackendReturn
    \/ LongReturn
    \/ LongExcept

SpecLong == InitLong /\ [][NextLong]_vars

\* ------------------------------------- claims: the chunked transcriber

Completed == tpc = "done" /\ result.kind = "str"

\* The chunking of [0, D) by C that C1 states: ceil(D/C) chunks at 0, C, 2C,
\* ..., each of duration min(C, D - start); D in ticks, C in seconds.
ClaimedChunks(D, C) ==
    LET c == C * TicksPerSecond
        n == (D + c - 1) \div c
    IN  [k \in 1..n |-> [start |-> (k - 1) * c,
                         dur |-> Min(c, D - (k - 1) * c)]]

\* C1: a completed run has handed the backend exactly the ceil(D/C) chunks
\* at offsets 0, C, 2C, ..., each of duration min(C, D - start), which cover
\* [0, D) with no gap and no overlap, a fractional tail and a duration under
\* one second included.
C1_ChunksCoverDuration ==
    Completed => calls = ClaimedChunks(audio_duration, chunk_duration)

RecognisedOutcome(o) ==
    o.type \in {"text", "UnknownValueError", "RequestError"}

\* C2: when every backend call came back with text, unintelligible or a
\* request error (and the artifact could be read), the run returns a
\* transcript of one segment per chunk, in chunk order: the backend's text,
\* the unclear sentinel, or the error sentinel, the two sentinels different.
C2_OneSegmentPerChunk ==
    (/\ tpc = "done"
     /\ exc.origin # "artifact"
     /\ \A k \in 1..Len(outcomes) : RecognisedOutcome(outcomes[k]))
    => /\ result.kind = "str"
       /\ Len(full_text) = Len(ChunkStarts(audio_duration, chunk_duration))
       /\ Len(full_text) = Len(outcomes)
       /\ \A k \in 1..Len(full_text) :
            /\ outcomes[k].type = "text" => full_text[k] = outcomes[k].text
            /\ outcomes[k].type = "UnknownValueError"
                 => full_text[k] = UNCLEAR /\ full_text[k] # ERROR
            /\ outcomes[k].type = "RequestError"
                 => full_text[k] = ERROR /\ full_text[k] # UNCLEAR
       /\ result = Str(JoinSpace(full_text))

\* A completed run of three chunks or more that met each of the three
\* outcomes.
C2_Witness ==
    /\ Completed
    /\ Len(full_text) >= 3
    /\ \A t \in {"text", "UnknownValueError", "RequestError"} :
         \E k \in 1..Len(outcomes) : outcomes[k].type = t

\* C3: the run returns no transcript only when the artifact could not be
\* opened or seeked; no failure of the backend, of any kind, does that.
C3_FailsOnlyOnUnreadableSource ==
    (tpc = "done" /\ result = NoneVal) => exc.origin = "artifact"

\* The re-split of the round trip, s.split(" "): the pieces between single spaces, empty pieces kept.
RECURSIVE SplitSpace(_)
SplitSpace(s) ==
    IF \A k \in 1..Len(s) : s[k] # " " THEN <<s>>
    ELSE LET p == CHOOSE k \in 1..Len(s) :
                      s[k] = " " /\ \A j \in 1..(k - 1) : s[j] # " "
         IN  <<SubSeq(s, 1, p - 1)>> \o SplitSpace(SubSeq(s, p + 1, Len(s)))

\* The number of spaces inside the chunk outputs.
RECURSIVE SpacesIn(_)
SpacesIn(parts) ==
    IF Len(parts) = 0 THEN 0
    ELSE Cardinality({k \in 1..Len(parts[1]) : parts[1][k] = " "})
           + SpacesIn(Tail(parts))

\* C8 as stated, on the runs that processed at least one chunk: splitting the
\* returned transcript on a single space yields as many segments as there
\* were chunks. (A run of no chunk fails it too: "" splits into [""].)
C8_SplitRecoversChunkCount ==
    (Completed /\ Len(full_text) >= 1)
    => Len(SplitSpace(result.val)) = Len(full_text)

\* C8 amended: splitting the returned transcript on a single space yields
\* one segment per chunk plus one per space inside the chunk outputs, and one
\* (empty) segment when there was no chunk; so it yields exactly as many
\* segments as chunks when there was a chunk and no output holds a space.
C8_SplitCountsChunksAndSpaces ==
    Completed =>
        /\ Len(SplitSpace(result.val)) =
             IF Len(full_text) = 0 THEN 1
             ELSE Len(full_text) + SpacesIn(full_text)
        /\ (Len(full_text) >= 1 /\ SpacesIn(full_text) = 0)
             => Len(SplitSpace(result.val)) = Len(full_text)

\* A completed run of two chunks or more, one output with a space in it and
\* one without.
C8_Witness ==
    /\ Completed
    /\ Len(full_text) >= 2
    /\ \E k \in 1..Len(full_text) : SpacesIn(<<full_text[k]>>) > 0
    /\ \E k \in 1..Len(full_text) : SpacesIn(<<full_text[k]>>) = 0

\* C10: the backend is called once per chunk in increasing offset order, one
\* call at a time, with no retry, and every call that has come back (with
\* text or with a failure) has appended exactly one entry to the result list.
C10_OneCallOneAppendInOrder ==
    /\ Len(calls) - Len(outcomes) \in {0, 1}
    /\ \A k \in 1..Len(calls) :
         calls[k].start = (k - 1) * chunk_duration * TicksPerSecond
    /\ Len(full_text) = Len(outcomes)

\* ------------------------------------------------ transcribe_kannada_audio

\* adjust_for_ambient_noise(audio_file, duration=0.5): half a second, in ticks.
CalibrationTicks == TicksPerSecond \div 2

\* The except clauses of transcribe_kannada_audio, in order; each returns None.
WholeHandler(type) ==
    CASE type = "UnknownValueError" -> NoneVal
      [] type = "RequestError" -> NoneVal
      [] OTHER -> NoneVal

InitWhole ==
    /\ tpc = "whole_start"
    /\ audio_duration \in 1..MaxDurationTicks
    /\ chunk_duration = 1
    /\ is_wav \in BOOLEAN
    /\ i = 0
    /\ cursor = 0
    /\ chunk = NoChunk
    /\ full_text = << >>
    /\ result = Pending
    /\ exc = NoExc
    /\ calls = << >>
    /\ outcomes = << >>
    /\ AcquirerIdle

\* A path that does not end in ".wav" is converted first (mono, 16 kHz, same
\* duration); convert_to_wav returns False on any error, and then None is
\* returned.
WholeConvert ==
    /\ tpc = "whole_start"
    /\ \E ok \in BOOLEAN :
         IF is_wav \/ ok
         THEN tpc' = "whole_open" /\ result' = result
         ELSE tpc' = "done" /\ result' = NoneVal
    /\ UNCHANGED <<audio_duration, chunk_duration, is_wav, i, cursor, chunk,
                   full_text, exc, calls, outcomes, evars>>

\* with sr.AudioFile(audio_file_path) as audio_file
WholeOpen ==
    /\ tpc = "whole_open"
    /\ \E ok \in BOOLEAN :
         IF ok
         THEN /\ tpc' = "whole_adjust"
              /\ cursor' = 0
              /\ exc' = exc
         ELSE /\ tpc' = "whole_except"
              /\ exc' = [type |-> "Exception", origin |-> "artifact"]
              /\ cursor' = cursor
    /\ UNCHANGED <<audio_duration, chunk_duration, is_wav, i, chunk,
                   full_text, result, calls, outcomes, evars>>

\* recognizer.adjust_for_ambient_noise(audio_file, duration=0.5): the sample
\* is read from the open stream, which moves its read position.
WholeAdjust ==
    /\ tpc = "whole_adjust"
    /\ cursor' = Min(audio_duration, cursor + CalibrationTicks)
    /\ tpc' = "whole_record"
    /\ UNCHANGED <<audio_duration, chunk_duration, is_wav, i, chunk,
                   full_text, result, exc, calls, outcomes, evars>>

\* recognizer.record(audio_file): the stream from its read position to its end.
WholeRecord ==
    /\ tpc = "whole_record"
    /\ chunk' = [start |-> cursor, dur |-> audio_duration - cursor]
    /\ cursor' = audio_duration
    /\ tpc' = "whole_call"
    /\ UNCHANGED <<audio_duration, chunk_duration, is_wav, i, full_text,
                   result, exc, calls, outcomes, evars>>

\* recognizer.recognize_google(audio, ...) is entered.
WholeCall ==
    /\ tpc = "whole_call"
    /\ calls' = Append(calls, chunk)
    /\ tpc' = "whole_wait"
    /\ UNCHANGED <<audio_duration, chunk_duration, is_wav, i, cursor, chunk,
                   full_text, result, exc, outcomes, evars>>

\* The call comes back: return text, or an exception to the except clauses.
WholeBackendReturn ==
    /\ tpc = "whole_wait"
    /\ \E o \in BackendOutcomes :
         /\ outcomes' = Append(outcomes, o)
         /\ IF o.type = "text"
            THEN /\ result' = Str(o.text)
                 /\ tpc' = "done"
                 /\ exc' = exc
            ELSE /\ tpc' = "whole_except"
                 /\ exc' = [type |-> o.type, origin |-> "backend"]
                 /\ result' = result
    /\ UNCHANGED <<audio_duration, chunk_duration, is_wav, i, cursor, chunk,
                   full_text, calls, evars>>

WholeExcept ==
    /\ tpc = "whole_except"
    /\ result' = WholeHandler(exc.type)
    /\ tpc' = "done"
    /\ UNCHANGED <<audio_duration, chunk_duration, is_wav, i, cursor, chunk,
                   full_text, exc, calls, outcomes, evars>>

NextWhole ==
    \/ WholeConvert
    \/ WholeOpen
    \/ WholeAdjust
    \/ WholeRecord
    \/ WholeCall
    \/ WholeBackendReturn
    \/ WholeExcept

SpecWhole == InitWhole /\ [][NextWhole]_vars

\* ------------------------------------- claims: the whole-file transcriber

\* C9: the backend is called once, on the entire artifact [0, D); the text it
\* returns is returned as it is; when it reports unintelligible speech or
\* its call errors, None is returned; no exception leaves the function.
C9_WholeFileOneCallTextOrNone ==
    /\ Len(calls) <= 1
    /\ \A k \in 1..Len(calls) :
         calls[k] = [start |-> 0, dur |-> audio_duration]
    /\ result.kind \in {"pending", "str", "None"}
    /\ (tpc = "done" /\ Len(outcomes) = 1) =>
         result = IF outcomes[1].type = "text" THEN Str(outcomes[1].text)
                  ELSE NoneVal

\* ------------------------------------------------------ ytb.py: candidates

\* One entry of info['formats']: its place in the list as format_id, the two
\* codec tags ("none": no such track), and abr: << >> when the key is missing
\* or None, <<n>> when it is the number n.
Candidates ==
    [vcodec : {"none", "avc1"}, acodec : {"none", "mp4a"},
     abr : {<< >>} \cup {<<n>> : n \in 1..MaxAbr}]

RECURSIVE ListsUpTo(_)
ListsUpTo(n) ==
    IF n = 0 THEN {<< >>}
    ELSE LET shorter == ListsUpTo(n - 1)
         IN  shorter \cup {Append(l, c) : l \in {x \in shorter : Len(x) = n - 1},
                                          c \in Candidates}

\* The list as yt-dlp hands it over, each entry with its format_id.
WithIds(l) ==
    [k \in 1..Len(l) |-> [format_id |-> k, vcodec |-> l[k].vcodec,
                          acodec |-> l[k].acodec, abr |-> l[k].abr]]

\* get_available_formats: the entries with vcodec 'none' or, if there is
\* none, the entries whose acodec is not 'none'.
IsVcodecNone(f) == f.vcodec = "none"
IsAcodecPresent(f) == f.acodec # "none"
GetAvailableFormats(fs) ==
    LET audio_only == SelectSeq(fs, IsVcodecNone)
    IN  IF audio_only = << >> THEN SelectSeq(fs, IsAcodecPresent)
        ELSE audio_only

\* key=lambda x: float(x.get('abr', 0) or 0)
AbrKey(f) == IF f.abr = << >> THEN 0 ELSE f.abr[1]

\* sorted(audio_formats, key=..., reverse=True): stable, so entries of equal
\* key keep their order.
RECURSIVE InsertDesc(_, _)
InsertDesc(sorted, f) ==
    IF sorted = << >> THEN <<f>>
    ELSE IF AbrKey(Head(sorted)) >= AbrKey(f)
         THEN <<Head(sorted)>> \o InsertDesc(Tail(sorted), f)
         ELSE <<f>> \o sorted

RECURSIVE SortedByAbrDesc(_)
SortedByAbrDesc(fs) ==
    IF fs = << >> THEN << >>
    ELSE InsertDesc(SortedByAbrDesc(SubSeq(fs, 1, Len(fs) - 1)), fs[Len(fs)])

\* datetime.now().strftime("%Y%m%d_%H%M%S"): the clock to the whole second.
Timestamp(t) == t \div TicksPerSecond

\* os.path.join(output_dir, f"audio_stream_{timestamp}")
OutputPath(dir, t) == [dir |-> dir, name |-> <<"audio_stream_", Timestamp(t)>>]

\* ------------------------------------------ extract_audio_from_stream

AcquirerStart(active, fs) ==
    /\ formats = WithIds(fs)
    /\ now = 0
    /\ epc = [p \in Runs |-> IF p \in active THEN "start" ELSE "off"]
    /\ audio_formats = [p \in Runs |-> << >>]
    /\ best_audio = [p \in Runs |-> NoneVal]
    /\ output_path = [p \in Runs |-> NoneVal]
    /\ started = [p \in Runs |-> FALSE]
    /\ ret = [p \in Runs |-> Pending]

\* One invocation, on any candidate list.
InitFormat ==
    /\ TranscriberIdle
    /\ \E fs \in ListsUpTo(MaxFormats) : AcquirerStart({1}, fs)

\* Two invocations on the same URL and the same destination directory.
InitNaming ==
    /\ TranscriberIdle
    /\ \E fs \in {l \in ListsUpTo(1) : \A k \in 1..Len(l) : IsAcodecPresent(l[k])} :
         AcquirerStart(Runs, fs)

\* audio_formats = get_available_formats(url); an exception in it gives [].
ProbeFormats(p) ==
    /\ epc[p] = "start"
    /\ \E ok \in BOOLEAN :
         audio_formats' = [audio_formats EXCEPT
                             ![p] = IF ok THEN GetAvailableFormats(formats)
                                    ELSE << >>]
    /\ epc' = [epc EXCEPT ![p] = "select"]
    /\ UNCHANGED <<tvars, formats, now, best_audio, output_path, started, ret>>

\* if not audio_formats: return None; else sort and take the first.
SelectBest(p) ==
    /\ epc[p] = "select"
    /\ IF audio_formats[p] = << >>
       THEN /\ ret' = [ret EXCEPT ![p] = NoneVal]
            /\ epc' = [epc EXCEPT ![p] = "done"]
            /\ UNCHANGED <<audio_formats, best_audio>>
       ELSE /\ audio_formats' = [audio_formats EXCEPT
                                   ![p] = SortedByAbrDesc(audio_formats[p])]
            /\ best_audio' = [best_audio EXCEPT
                                ![p] = Some(SortedByAbrDesc(audio_formats[p])[1])]
            /\ epc' = [epc EXCEPT ![p] = "name"]
            /\ ret' = ret
    /\ UNCHANGED <<tvars, formats, now, output_path, started>>

\* The output name is made from the clock.
NameOutput(p) ==
    /\ epc[p] = "name"
    /\ output_path' = [output_path EXCEPT
                         ![p] = Some(OutputPath("downloads", now))]
    /\ epc' = [epc EXCEPT ![p] = "download"]
    /\ UNCHANGED <<tvars, formats, now, audio_formats, best_audio, started, ret>>

\* ydl.download([url]): the path with ".mp3" on success, None on an exception.
Download(p) ==
    /\ epc[p] = "download"
    /\ started' = [started EXCEPT ![p] = TRUE]
    /\ \E ok \in BOOLEAN :
         ret' = [ret EXCEPT ![p] = IF ok THEN Str(output_path[p].val)
                                   ELSE NoneVal]
    /\ epc' = [epc EXCEPT ![p] = "done"]
    /\ UNCHANGED <<tvars, formats, now, audio_formats, best_audio, output_path>>

\* The wall clock advances.
Tick ==
    /\ now < MaxClockTicks
    /\ now' = now + 1
    /\ UNCHANGED <<tvars, formats, epc, audio_formats, best_audio, output_path,
                   started, ret>>

NextAcquire ==
    \/ \E p \in Runs : ProbeFormats(p)
    \/ \E p \in Runs : SelectBest(p)
    \/ \E p \in Runs : NameOutput(p)
    \/ \E p \in Runs : Download(p)
    \/ Tick

SpecFormat == InitFormat /\ [][NextAcquire]_vars
SpecNaming == InitNaming /\ [][NextAcquire]_vars

\* ------------------------------------------------- claims: the acquisition

\* An audio-only entry: an audio track and no video track.
AudioOnly(f) == f.vcodec = "none" /\ f.acodec # "none"
HasAudio(f) == f.acodec # "none"
Chosen(p) == best_audio[p].kind = "some"

\* C4: when the list holds an audio-only entry, the chosen format is an
\* audio-only entry of maximal bitrate among the audio-only entries (missing
\* bitrate as 0), the first of the list among those of that bitrate.
C4_BestAudioOnlyFirstOfMax ==
    \A p \in Runs :
      (Chosen(p) /\ \E k \in 1..Len(formats) : AudioOnly(formats[k])) =>
        LET b == best_audio[p].val
        IN  /\ AudioOnly(b)
            /\ \A k \in 1..Len(formats) :
                 AudioOnly(formats[k]) =>
                   \/ AbrKey(formats[k]) < AbrKey(b)
                   \/ AbrKey(formats[k]) = AbrKey(b) /\ b.format_id <= k

\* C5: on an empty list, and on a list whose entries all have audio codec
\* "none", no format is chosen, no download is started, no path is returned.
C5_NoSuitableFormat ==
    \A p \in Runs :
      (\A k \in 1..Len(formats) : ~HasAudio(formats[k])) =>
        /\ ~Chosen(p)
        /\ ~started[p]
        /\ ret[p].kind # "str"

\* C6: when the list holds no audio-only entry but an entry with an audio
\* codec, the chosen format has an audio codec and the highest bitrate among
\* the entries that have one (missing bitrate as 0).
C6_FallbackHasAudioAndMaxAbr ==
    \A p \in Runs :
      (/\ Chosen(p)
       /\ \A k \in 1..Len(formats) : ~AudioOnly(formats[k])
       /\ \E k \in 1..Len(formats) : HasAudio(formats[k])) =>
        LET b == best_audio[p].val
        IN  /\ HasAudio(b)
            /\ \A k \in 1..Len(formats) :
                 HasAudio(formats[k]) => AbrKey(formats[k]) <= AbrKey(b)

\* C7: two invocations on the same destination directory never write to the
\* same output path.
C7_DistinctOutputPaths ==
    \A p, q \in Runs :
      (p # q /\ output_path[p].kind = "some" /\ output_path[q].kind = "some")
        => output_path[p] # output_path[q]

=============================================================================
